---- MODULE Spec2Model ----
(***************************************************************************)
(* Model of src/gui/main.cpp of neovim-qt: the partition of the raw        *)
(* argument vector, the command line parse, the selection of the transport *)
(* and the runtime path fallback chain.                                    *)
(*                                                                         *)
(* Indices are 0-based as in the C++ code (QList::indexOf, QList::mid);    *)
(* -1 is "not found".                                                      *)
(***************************************************************************)
EXTENDS Integers, Sequences, FiniteSets, TLC

(* Largest number of command line tokens after argv[0]. *)
MaxArgs == 4

(* argv[0]. *)
Prog == "nvim-qt"

(* The command line tokens the model draws argv[1..] from: the three mode  *)
(* flags, an option that takes a value, the positional marker, the help    *)
(* flag, an option the parser does not know and two file names.            *)
Tokens == {"--embed", "--server", "--spawn", "--nvim", "--", "--help", "-x", "f", "g"}

Platforms == {"linux", "mac", "win"}

(* Values of the environment variable NVIM_QT_RUNTIME_PATH ("" is unset). *)
EnvPaths == {"", "/env/rt"}

(* Values of the macro NVIM_QT_RUNTIME_PATH ("" is not defined). *)
BuildPaths == {"", "/usr/share/rt"}

(* The parent of the directory of the executable. *)
AppParent == "/opt"

VARIABLES
    platform,         \* build target: Q_OS_MAC, Q_OS_WIN or neither
    raw,              \* app->arguments(), argv[0] included
    pc,               \* position of main()
    appKind,          \* class of the object createApplication() returned
    positionalMarker, \* main.cpp:106
    spawn_idx,        \* main.cpp:112
    launcherArgs,     \* the list given to parser.process()
    neovimArgs,       \* main.cpp:107
    spawnArgs,        \* main.cpp:108
    parser,           \* result of parser.process()
    buildPath,        \* macro NVIM_QT_RUNTIME_PATH as compiled in, "" when not defined
    buildIsDir,       \* whether the macro's path was an existing directory
    envPath,          \* value of NVIM_QT_RUNTIME_PATH read at main.cpp:167
    envIsDir,         \* whether that value was an existing directory
    fs,               \* directories below AppParent seen by the fallback chain
    consulted,        \* candidates the fallback chain tested
    rtp,              \* directory the fallback chain inserted, "" when none
    log,              \* warnings, help texts and parser messages written
    calls             \* NeovimConnector factory calls made, in order

vars == <<platform, raw, pc, appKind, positionalMarker, spawn_idx, launcherArgs,
          neovimArgs, spawnArgs, parser, buildPath, buildIsDir, envPath, envIsDir,
          fs, consulted, rtp, log, calls>>

(* What the fallback chain reads and leaves behind. *)
resolver == <<buildPath, buildIsDir, envPath, envIsDir, fs, consulted, rtp>>
partition == <<positionalMarker, spawn_idx, launcherArgs, neovimArgs, spawnArgs>>

----------------------------------------------------------------------------
(* QList helpers *)

(* All sequences over S of length at most n. *)
SeqUpTo(S, n) == UNION {[1..k -> S] : k \in 0..n}

(* QList::indexOf(tok): 0-based index of the first occurrence, or -1. *)
IndexOf(s, tok) ==
    IF \E i \in 1..Len(s) : s[i] = tok
    THEN (CHOOSE i \in 1..Len(s) : s[i] = tok /\ \A j \in 1..(i-1) : s[j] # tok) - 1
    ELSE -1

(* QList::mid(pos): the elements from 0-based position pos to the end. *)
Mid(s, pos) == SubSeq(s, pos + 1, Len(s))

(* QList::mid(0, n): the first n elements. *)
Left(s, n) == SubSeq(s, 1, IF n > Len(s) THEN Len(s) ELSE n)

(* QList::insert(i, v) with a 0-based position. *)
InsertAt(s, i, v) == SubSeq(s, 1, i) \o <<v>> \o SubSeq(s, i + 1, Len(s))

(* Whether tok occurs in s. *)
Contains(s, tok) == \E i \in 1..Len(s) : s[i] = tok

----------------------------------------------------------------------------
(* QCommandLineParser, as configured by main.cpp:81-104 *)

(* The options main() registers: name |-> whether it takes a value. *)
Options ==
    [nvim |-> TRUE, geometry |-> TRUE, maximized |-> FALSE, fullscreen |-> FALSE,
     help |-> FALSE, embed |-> FALSE, server |-> TRUE, spawn |-> FALSE]

(* Default value of --nvim. *)
DefaultNvim == "nvim"

(* The text after the leading "--" of the tokens that start with "--" and  *)
(* are longer than two characters.                                         *)
LongName(tok) ==
    CASE tok = "--embed" -> "embed"
      [] tok = "--server" -> "server"
      [] tok = "--spawn" -> "spawn"
      [] tok = "--nvim" -> "nvim"
      [] tok = "--help" -> "help"
      [] OTHER -> ""

(* The tokens that start with a single "-": compacted short options. *)
ShortName(tok) == IF tok = "-x" THEN "x" ELSE ""

(* State of the parser before it reads the first argument. *)
NoParse ==
    [names |-> {}, server |-> "", nvim |-> DefaultNvim, positional |-> <<>>,
     error |-> FALSE, force |-> FALSE]

(* Assignment of a value to the option name. *)
SetValue(st, name, v) ==
    CASE name = "server" -> [st EXCEPT !.server = v]
      [] name = "nvim" -> [st EXCEPT !.nvim = v]
      [] OTHER -> st

(* QCommandLineParserPrivate::parse from the (1-based) position i on: an   *)
(* option that takes a value consumes the next argument whatever it is; an *)
(* unknown option or a missing value is an error; after "--" every         *)
(* argument is positional.                                                 *)
RECURSIVE ParseFrom(_, _, _)
ParseFrom(args, i, st) ==
    IF i > Len(args) THEN st
    ELSE LET tok == args[i] IN
         IF st.force
         THEN ParseFrom(args, i + 1, [st EXCEPT !.positional = Append(@, tok)])
         ELSE IF tok = "--"
         THEN ParseFrom(args, i + 1, [st EXCEPT !.force = TRUE])
         ELSE IF LongName(tok) # ""
         THEN LET name == LongName(tok) IN
              IF name \in DOMAIN Options
              THEN LET found == [st EXCEPT !.names = @ \cup {name}] IN
                   IF Options[name]
                   THEN IF i + 1 > Len(args)
                        THEN [found EXCEPT !.error = TRUE]
                        ELSE ParseFrom(args, i + 2, SetValue(found, name, args[i + 1]))
                   ELSE ParseFrom(args, i + 1, found)
              ELSE ParseFrom(args, i + 1, [st EXCEPT !.error = TRUE])
         ELSE IF ShortName(tok) # ""
         THEN IF ShortName(tok) \in DOMAIN Options
              THEN ParseFrom(args, i + 1, [st EXCEPT !.names = @ \cup {ShortName(tok)}])
              ELSE ParseFrom(args, i + 1, [st EXCEPT !.error = TRUE])
         ELSE ParseFrom(args, i + 1, [st EXCEPT !.positional = Append(@, tok)])

(* QCommandLineParser::parse: the first argument is the program name. *)
Parse(args) == ParseFrom(args, 2, NoParse)

(* parser.isSet(name) *)
isSet(name) == name \in parser.names

(* A showHelp() that prints the usage text and returns to its caller. *)
showHelpReturns(next) == next

(* parser.showHelp(): prints the usage text and exits the application; the *)
(* value is the position main() is at afterwards, given the position next  *)
(* of the statement that follows the call.                                 *)
showHelp(next) == "exit"

----------------------------------------------------------------------------
(* The partition of the raw argument vector, main.cpp:106-124 *)

(* The fixed directive neovimArgs starts with, main.cpp:109-110. *)
Directive == <<"--cmd", "set termguicolors">>

(* main.cpp:113-114: the spawn branch is taken. *)
SpawnBranch(sidx, marker) == sidx # -1 /\ (sidx < marker \/ marker = -1)

(* main.cpp:118: the positional-marker branch is taken. *)
MarkerBranch(sidx, marker) == ~SpawnBranch(sidx, marker) /\ marker # -1

(* The list handed to parser.process(), main.cpp:115, 119, 123. *)
ProcessArgs(arguments, sidx, marker) ==
    IF SpawnBranch(sidx, marker) THEN Left(arguments, sidx + 1)
    ELSE IF MarkerBranch(sidx, marker) THEN Left(arguments, marker)
    ELSE arguments

(* spawnArgs after the partition, main.cpp:108, 116. *)
SpawnArgsOf(arguments, sidx, marker) ==
    IF SpawnBranch(sidx, marker) THEN Mid(arguments, sidx + 1) ELSE <<>>

(* neovimArgs taken from the marker on instead of from the token after it. *)
NeovimArgsFromMarker(arguments, sidx, marker) ==
    IF MarkerBranch(sidx, marker) THEN Directive \o Mid(arguments, marker)
    ELSE Directive

(* neovimArgs after the partition, main.cpp:109-110, 120. *)
NeovimArgsOf(arguments, sidx, marker) ==
    IF MarkerBranch(sidx, marker) THEN Directive \o Mid(arguments, marker + 1)
    ELSE Directive

----------------------------------------------------------------------------
(* The runtime path fallback chain, main.cpp:167-199 *)

(* The names main() descends into below AppParent, main.cpp:183-192. *)
RelativeChain(plat) ==
    IF plat = "mac" THEN <<"Resources", "runtime">>
    ELSE <<"share", "nvim-qt", "runtime">>

(* s without its last element. *)
Front(s) == SubSeq(s, 1, Len(s) - 1)

(* The directories the model lets exist: AppParent (the empty list of      *)
(* names) and the directories on the way down the chain to the candidate.  *)
Reachable(chain) == {SubSeq(chain, 1, k) : k \in 0..Len(chain)}

(* The file systems over the directories a chain reaches: sets of existing *)
(* directories, each with its parent.                                      *)
PrefixClosed(chain) ==
    {F \in SUBSET Reachable(chain) : \A d \in F : d # <<>> => Front(d) \in F}

FileSystems(plat) == PrefixClosed(RelativeChain(plat))

(* QDir::cd(name): d changes only if the new directory exists. *)
cd(F, d, name) == IF Append(d, name) \in F THEN Append(d, name) ELSE d

(* The QDir after the chain of cd calls, main.cpp:182-192. *)
RECURSIVE Descend(_, _, _, _)
Descend(F, d, chain, k) ==
    IF k > Len(chain) THEN d
    ELSE Descend(F, cd(F, d, chain[k]), chain, k + 1)

(* QDir::path() *)
RECURSIVE PathOf(_)
PathOf(d) ==
    IF d = <<>> THEN AppParent
    ELSE PathOf(Front(d)) \o "/" \o d[Len(d)]

(* The directory <AppParent>/share/nvim-qt/runtime (Resources/runtime). *)
RelativeCandidate(plat) == RelativeChain(plat)

(* QFileInfo(path).isDir() of the environment value, main.cpp:168. *)
EnvMatches(ePath, eIsDir) == ePath # "" /\ eIsDir

(* The #ifdef branch, main.cpp:173-174. *)
BuildMatches(bPath, bIsDir) == bPath # "" /\ bIsDir

(* d.exists() after the cd calls, main.cpp:194. *)
RelativeMatches(plat, F) == Descend(F, <<>>, RelativeChain(plat), 1) \in F

(* The fallback chain with the compiled-in path tested before the          *)
(* environment.                                                            *)
RuntimePathBuildFirst(plat, ePath, eIsDir, bPath, bIsDir, F) ==
    IF BuildMatches(bPath, bIsDir) THEN bPath
    ELSE IF EnvMatches(ePath, eIsDir) THEN ePath
    ELSE IF RelativeMatches(plat, F)
         THEN PathOf(Descend(F, <<>>, RelativeChain(plat), 1))
         ELSE ""

(* The directory of the "set rtp+=" token main() inserts, "" when it       *)
(* inserts none, main.cpp:167-199.                                         *)
RuntimePath(plat, ePath, eIsDir, bPath, bIsDir, F) ==
    IF EnvMatches(ePath, eIsDir) THEN ePath
    ELSE IF BuildMatches(bPath, bIsDir) THEN bPath
    ELSE IF RelativeMatches(plat, F)
         THEN PathOf(Descend(F, <<>>, RelativeChain(plat), 1))
         ELSE ""

(* The candidates whose existence main() tests. *)
Consulted(ePath, eIsDir, bPath, bIsDir) ==
    {"env"}
    \cup (IF EnvMatches(ePath, eIsDir) THEN {}
          ELSE (IF bPath # "" THEN {"build"} ELSE {})
               \cup (IF BuildMatches(bPath, bIsDir) THEN {} ELSE {"relative"}))

(* QString("set rtp+=%1").arg(dir) *)
RtpToken(dir) == "set rtp+=" \o dir

(* neovimArgs.insert(0, "--cmd"); neovimArgs.insert(1, "set rtp+=<dir>"). *)
InsertRtp(args, dir) ==
    IF dir = "" THEN args
    ELSE InsertAt(InsertAt(args, 0, "--cmd"), 1, RtpToken(dir))

----------------------------------------------------------------------------
(* Validation and the connector calls, main.cpp:130-204 *)

(* The count without --spawn. *)
ExclusiveWithoutSpawn(p) ==
    (IF "server" \in p.names THEN 1 ELSE 0)
    + (IF "embed" \in p.names THEN 1 ELSE 0)

(* main.cpp:130 *)
Exclusive(p) ==
    (IF "server" \in p.names THEN 1 ELSE 0)
    + (IF "embed" \in p.names THEN 1 ELSE 0)
    + (IF "spawn" \in p.names THEN 1 ELSE 0)

(* The test without the positional marker. *)
RejectsFilesOnly(p, marker) == p.positional # <<>>

(* main.cpp:145-146 and 152-153 *)
RejectsPositional(p, marker) == p.positional # <<>> \/ marker # -1

(* No test of spawnArgs. *)
RejectsNoSpawn(sargs) == FALSE

(* main.cpp:160 *)
RejectsSpawn(sargs) == sargs = <<>>

(* NeovimConnector::fromStdinOut(), main.cpp:150 *)
FromStdinOut == [fn |-> "fromStdinOut", args |-> <<>>, target |-> ""]

(* NeovimConnector::connectToNeovim(server), main.cpp:158 *)
ConnectToNeovim(server) == [fn |-> "connectToNeovim", args |-> <<>>, target |-> server]

(* NeovimConnector::spawn(args, exe), main.cpp:165, 203 *)
SpawnCall(args, exe) == [fn |-> "spawn", args |-> args, target |-> exe]

(* The arguments of the explicit spawn, main.cpp:165. *)
ExplicitSpawnArgs(sargs) == Mid(sargs, 1)

(* The arguments of the default spawn, main.cpp:167-202. *)
DefaultArgs(nargs, dir, p) == InsertRtp(nargs, dir) \o p.positional

----------------------------------------------------------------------------
(* main() *)

Init ==
    /\ platform \in Platforms
    /\ buildPath = ""
    /\ buildIsDir = FALSE
    /\ envPath = ""
    /\ envIsDir = FALSE
    /\ raw \in {<<Prog>> \o t : t \in SeqUpTo(Tokens, MaxArgs)}
    /\ pc = "create"
    /\ appKind = ""
    /\ positionalMarker = -1
    /\ spawn_idx = -1
    /\ launcherArgs = <<>>
    /\ neovimArgs = <<>>
    /\ spawnArgs = <<>>
    /\ parser = NoParse
    /\ fs = {}
    /\ consulted = {}
    /\ rtp = ""
    /\ log = <<>>
    /\ calls = <<>>

(* createApplication(), main.cpp:58-71: the position of the first "--" or  *)
(* "--spawn" ends the search for "--help".                                 *)
HelpBeforeMarkers(plat, arguments) ==
    /\ plat = "linux"
    /\ \E i \in 1..Len(arguments) :
          /\ arguments[i] \in {"--help", "-h"}
          /\ \A j \in 1..i : arguments[j] \notin {"--", "--spawn"}

(* main.cpp:75 *)
CreateApplication ==
    /\ pc = "create"
    /\ appKind' = IF HelpBeforeMarkers(platform, raw) THEN "QCoreApplication" ELSE "NeovimQt::App"
    /\ pc' = "partition"
    /\ UNCHANGED <<platform, raw, partition, parser, resolver, log, calls>>

(* main.cpp:106-116, 119-120 *)
Partition ==
    /\ pc = "partition"
    /\ LET marker == IndexOf(raw, "--")
           sidx == IndexOf(raw, "--spawn")
       IN /\ positionalMarker' = marker
          /\ spawn_idx' = sidx
          /\ launcherArgs' = ProcessArgs(raw, sidx, marker)
          /\ spawnArgs' = SpawnArgsOf(raw, sidx, marker)
          /\ neovimArgs' = NeovimArgsOf(raw, sidx, marker)
    /\ pc' = "process"
    /\ UNCHANGED <<platform, raw, appKind, parser, resolver, log, calls>>

(* parser.process(args) on a command line it cannot parse: the message is  *)
(* written and the application exits, main.cpp:117, 121, 123.              *)
ProcessError ==
    /\ pc = "process"
    /\ Parse(launcherArgs).error
    /\ parser' = Parse(launcherArgs)
    /\ log' = Append(log, "parse error")
    /\ pc' = "exit"
    /\ UNCHANGED <<platform, raw, appKind, partition, resolver, calls>>

(* parser.process(args) with --help set, and main.cpp:126-128. *)
ProcessHelp ==
    /\ pc = "process"
    /\ ~Parse(launcherArgs).error
    /\ "help" \in Parse(launcherArgs).names
    /\ parser' = Parse(launcherArgs)
    /\ log' = Append(log, "help")
    /\ pc' = showHelp("exclusive")
    /\ UNCHANGED <<platform, raw, appKind, partition, resolver, calls>>

(* parser.process(args) returns, main.cpp:117, 121, 123, 126. *)
Process ==
    /\ pc = "process"
    /\ ~Parse(launcherArgs).error
    /\ "help" \notin Parse(launcherArgs).names
    /\ parser' = Parse(launcherArgs)
    /\ pc' = "exclusive"
    /\ UNCHANGED <<platform, raw, appKind, partition, resolver, log, calls>>

(* main.cpp:130-134 *)
CheckExclusive ==
    /\ pc = "exclusive"
    /\ IF Exclusive(parser) > 1
       THEN /\ log' = log \o <<"warning: mutually exclusive", "help">>
            /\ pc' = showHelp("mode")
       ELSE /\ log' = log
            /\ pc' = "mode"
    /\ UNCHANGED <<platform, raw, appKind, partition, parser, resolver, calls>>

(* main.cpp:144-150 *)
Embed ==
    /\ pc = "mode"
    /\ isSet("embed")
    /\ LET bad == RejectsPositional(parser, positionalMarker)
           at == IF bad THEN showHelp("connect") ELSE "connect"
       IN /\ log' = IF bad THEN log \o <<"warning: --embed", "help">> ELSE log
          /\ calls' = IF at = "exit" THEN calls ELSE Append(calls, FromStdinOut)
          /\ pc' = IF at = "exit" THEN "exit" ELSE "exec"
    /\ UNCHANGED <<platform, raw, appKind, partition, parser, resolver>>

(* main.cpp:151-158 *)
Server ==
    /\ pc = "mode"
    /\ ~isSet("embed")
    /\ isSet("server")
    /\ LET bad == RejectsPositional(parser, positionalMarker)
           at == IF bad THEN showHelp("connect") ELSE "connect"
       IN /\ log' = IF bad THEN log \o <<"warning: --server", "help">> ELSE log
          /\ calls' = IF at = "exit" THEN calls
                      ELSE Append(calls, ConnectToNeovim(parser.server))
          /\ pc' = IF at = "exit" THEN "exit" ELSE "exec"
    /\ UNCHANGED <<platform, raw, appKind, partition, parser, resolver>>

(* main.cpp:159-163 *)
SpawnCheck ==
    /\ pc = "mode"
    /\ ~isSet("embed")
    /\ ~isSet("server")
    /\ isSet("spawn")
    /\ IF RejectsSpawn(spawnArgs)
       THEN /\ log' = log \o <<"warning: --spawn", "help">>
            /\ pc' = showHelp("spawnExe")
       ELSE /\ log' = log
            /\ pc' = "spawnExe"
    /\ UNCHANGED <<platform, raw, appKind, partition, parser, resolver, calls>>

(* main.cpp:164-165; spawnArgs.at(0) of an empty list is out of range: the *)
(* program aborts or goes on with an arbitrary executable name.            *)
Spawn ==
    /\ pc = "spawnExe"
    /\ IF spawnArgs = <<>>
       THEN \/ /\ pc' = "exit"
               /\ log' = Append(log, "index out of range")
               /\ calls' = calls
            \/ \E exe \in Tokens \cup {""} :
                  /\ pc' = "exec"
                  /\ log' = log
                  /\ calls' = Append(calls, SpawnCall(<<>>, exe))
       ELSE /\ pc' = "exec"
            /\ log' = log
            /\ calls' = Append(calls,
                   SpawnCall(ExplicitSpawnArgs(spawnArgs), spawnArgs[1]))
    /\ UNCHANGED <<platform, raw, appKind, partition, parser, resolver>>

(* main.cpp:166-204. The environment (on Mac OS X after                   *)
(* loadLoginEnvironmen(), main.cpp:137-141, has set every variable the     *)
(* login shell prints), the compiled-in path and the directories below     *)
(* AppParent are read here; fs stays empty when main() does not look below *)
(* AppParent.                                                              *)
Default ==
    /\ pc = "mode"
    /\ ~isSet("embed")
    /\ ~isSet("server")
    /\ ~isSet("spawn")
    /\ \E F \in FileSystems(platform), ePath \in EnvPaths, eIsDir \in BOOLEAN,
          bPath \in BuildPaths, bIsDir \in BOOLEAN :
          LET dir == RuntimePath(platform, ePath, eIsDir, bPath, bIsDir, F)
              args == DefaultArgs(neovimArgs, dir, parser)
          IN /\ ePath = "" => ~eIsDir
             /\ bPath = "" => ~bIsDir
             /\ "relative" \notin Consulted(ePath, eIsDir, bPath, bIsDir) => F = {}
             /\ envPath' = ePath
             /\ envIsDir' = eIsDir
             /\ buildPath' = bPath
             /\ buildIsDir' = bIsDir
             /\ fs' = F
             /\ consulted' = Consulted(ePath, eIsDir, bPath, bIsDir)
             /\ rtp' = dir
             /\ neovimArgs' = args
             /\ calls' = Append(calls, SpawnCall(args, parser.nvim))
    /\ pc' = "exec"
    /\ UNCHANGED <<platform, raw, appKind, positionalMarker, spawn_idx,
                   launcherArgs, spawnArgs, parser, log>>

Next ==
    \/ CreateApplication
    \/ Partition
    \/ ProcessError
    \/ ProcessHelp
    \/ Process
    \/ CheckExclusive
    \/ Embed
    \/ Server
    \/ SpawnCheck
    \/ Spawn
    \/ Default

Spec == Init /\ [][Next]_vars

----------------------------------------------------------------------------
(* Vocabulary of the properties *)

ModeFlags == {"embed", "server", "spawn"}

Warnings == {"warning: mutually exclusive", "warning: --embed", "warning: --server",
             "warning: --spawn"}

(* The partition has been made and neovimArgs is as the partition left it. *)
Partitioned == pc \in {"process", "exclusive", "mode", "spawnExe", "exit"}

(* parser.process() has returned to main(). *)
Returned ==
    /\ pc \in {"exclusive", "mode", "spawnExe", "exec", "exit"}
    /\ ~parser.error
    /\ "help" \notin parser.names

(* The mode flags the parser has found. *)
FlagsSet == parser.names \cap ModeFlags

(* A warning has been written. *)
Warned == \E i \in 1..Len(log) : log[i] \in Warnings

(* The run has ended with a warning followed by the usage text. *)
ConfigurationError == pc = "exit" /\ Warned /\ log[Len(log)] = "help"

(* main() has passed the selection of the transport. *)
Settled == Returned /\ pc \in {"exec", "exit"}

(* The run went through the branch without a mode flag and spawned. *)
DefaultDone == Settled /\ FlagsSet = {} /\ pc = "exec"

(* The tokens of raw after its first "--", none when there is no "--". *)
AfterFirstMarker ==
    IF Contains(raw, "--") THEN Mid(raw, IndexOf(raw, "--") + 1) ELSE <<>>

(* The first "--spawn" of raw comes before its first "--", if any. *)
SpawnFirst ==
    /\ Contains(raw, "--spawn")
    /\ (Contains(raw, "--") => IndexOf(raw, "--spawn") < IndexOf(raw, "--"))

(* Number of positions of s that hold tok. *)
Count(s, tok) == Cardinality({i \in 1..Len(s) : s[i] = tok})

----------------------------------------------------------------------------
(* Properties *)

(* C1: after the partition, launcherArgs, spawnArgs and the part of        *)
(* neovimArgs after the fixed directive are contiguous slices of raw, in   *)
(* this order, that together hold every token of raw once; in the          *)
(* positional-marker branch the first "--" sits between launcherArgs and   *)
(* the rest and is the only token left out.                                *)
PartitionAccountsForEveryToken ==
    Partitioned =>
        LET rest == Mid(neovimArgs, 2) IN
        /\ Left(neovimArgs, 2) = Directive
        /\ IF Contains(raw, "--") /\ ~SpawnFirst
           THEN /\ spawnArgs = <<>>
                /\ ~Contains(launcherArgs, "--")
                /\ raw = launcherArgs \o <<"--">> \o rest
           ELSE raw = launcherArgs \o spawnArgs \o rest

(* C1 witness: the marker branch with launcher flags before the marker and *)
(* tokens after it.                                                        *)
PartitionWitness ==
    /\ pc = "process"
    /\ Contains(raw, "--")
    /\ ~SpawnFirst
    /\ Len(launcherArgs) > 1
    /\ Len(neovimArgs) > 2

(* C2 as stated: in Default mode, when neither the environment value nor   *)
(* the compiled-in path is an existing directory and the directory         *)
(* relative to the executable does not exist, no "set rtp+=" pair is       *)
(* inserted and the arguments of the backend begin with the directive.     *)
NoCandidateNoInjection ==
    (/\ DefaultDone
     /\ ~(envPath # "" /\ envIsDir)
     /\ ~(buildPath # "" /\ buildIsDir)
     /\ RelativeCandidate(platform) \notin fs)
    => /\ rtp = ""
       /\ Left(calls[1].args, 2) = Directive

(* C3: at most one connector call is made in a run, and once a warning has *)
(* been written the run is over without any connector call.                *)
AtMostOneTransport ==
    /\ Len(calls) <= 1
    /\ Warned => (calls = <<>> /\ pc = "exit")

(* C3 witness: a run that ended on a mode-specific warning. *)
AtMostOneTransportWitness ==
    /\ pc = "exit"
    /\ Warned
    /\ log[1] = "warning: --embed"

(* C4: when the parser has found more than one of --embed, --server and    *)
(* --spawn, the run ends with the mutual exclusivity warning and the usage *)
(* text as its only output, before any mode-specific warning and without   *)
(* any connector call.                                                     *)
ExclusivityFirst ==
    (Returned /\ Cardinality(FlagsSet) > 1 /\ pc # "exclusive")
    => /\ pc = "exit"
       /\ log = <<"warning: mutually exclusive", "help">>
       /\ calls = <<>>

(* C4 witness: two mode flags on a command line that would also fail both  *)
(* mode-specific validations.                                              *)
ExclusivityFirstWitness ==
    /\ Returned
    /\ pc = "exit"
    /\ FlagsSet = {"embed", "spawn"}
    /\ parser.positional # <<>>
    /\ spawnArgs = <<>>

(* C5: with --embed or --server set, a positional argument or a "--" in    *)
(* raw ends the run in a configuration error without a connector call;     *)
(* without them, and with no other mode flag, the one connector call is    *)
(* fromStdinOut (--embed) or connectToNeovim on the given address          *)
(* (--server).                                                             *)
EmbedServerRejectPositional ==
    (Settled /\ FlagsSet \cap {"embed", "server"} # {})
    => IF parser.positional # <<>> \/ Contains(raw, "--")
       THEN ConfigurationError /\ calls = <<>>
       ELSE Cardinality(FlagsSet) = 1
            => /\ pc = "exec"
               /\ log = <<>>
               /\ calls = <<IF "embed" \in FlagsSet THEN FromStdinOut
                            ELSE ConnectToNeovim(parser.server)>>

(* C5 witness: --embed alone with a "--" and no file argument. *)
EmbedServerWitness ==
    /\ Settled
    /\ FlagsSet = {"embed"}
    /\ parser.positional = <<>>
    /\ Contains(raw, "--")

(* C6 as stated: in Default mode and in Spawn mode every positional        *)
(* argument the parser found is among the arguments of the process         *)
(* spawned.                                                                *)
PositionalsForwarded ==
    (Settled /\ pc = "exec" /\ FlagsSet \subseteq {"spawn"})
    => \A i \in 1..Len(parser.positional) :
          Contains(calls[1].args, parser.positional[i])

SpawnNeedsExecutable ==
    (Returned /\ "spawn" \in FlagsSet /\ spawnArgs = <<>>)
    => /\ pc # "spawnExe"
       /\ calls = <<>>
       /\ pc \notin {"exclusive", "mode"} => ConfigurationError

(* C8 witness: the run ended on the --spawn warning. *)
SpawnNeedsExecutableWitness ==
    /\ pc = "exit"
    /\ spawnArgs = <<>>
    /\ log = <<"warning: --spawn", "help">>

(* C9 as stated: when the first "--spawn" of raw comes before its first    *)
(* "--", spawnArgs is the tokens of raw after that "--spawn", neovimArgs   *)
(* stays the fixed directive, and a process that is started has the first  *)
(* element of spawnArgs as its executable and the others as its arguments. *)
SpawnClaimsRemaining ==
    (pc \notin {"create", "partition"} /\ SpawnFirst)
    => /\ spawnArgs = Mid(raw, IndexOf(raw, "--spawn") + 1)
       /\ neovimArgs = Directive
       /\ (calls # <<>> /\ calls[1].fn = "spawn")
          => /\ spawnArgs # <<>>
             /\ calls[1] = SpawnCall(Tail(spawnArgs), spawnArgs[1])

(* C10 as stated: in Default mode the backend is spawned with the          *)
(* "set rtp+=" pair if a directory was resolved, the directive, the tokens *)
(* after the first "--" of raw and the positional arguments, in this       *)
(* order, and the executable is the value of --nvim.                       *)
DefaultArgumentOrder ==
    DefaultDone
    => calls = <<SpawnCall((IF rtp = "" THEN <<>> ELSE <<"--cmd", RtpToken(rtp)>>)
                           \o Directive \o AfterFirstMarker \o parser.positional,
                           parser.nvim)>>

====
